---- MODULE Spec2Model ----
(***************************************************************************)
(* StatisticsPen (Lib/fontTools/pens/statisticsPen.py): a pen that derives *)
(* mean, variance, standard deviation, covariance, correlation and slant   *)
(* from the six moment totals its base class MomentsPen accumulates.       *)
(*                                                                         *)
(* Numbers.  The program computes in Python floats.  The model computes in *)
(* exact real arithmetic on the numbers the program's operations can       *)
(* produce from integer coordinates: a number is <<n, d, r>>, standing for *)
(* (n / d) * sqrt(r) with d > 0, gcd(|n|, d) = 1 and r >= 1 squarefree     *)
(* (r = 1: a rational; zero is <<0, 1, 1>>).  NaN is <<0, 0, 0>>; every    *)
(* ordering comparison with NaN is FALSE, as in IEEE 754.  A raised Python *)
(* exception is the token <<1, 0, 0>>.  Rounding, overflow to infinity and *)
(* the float range are not modelled.                                       *)
(***************************************************************************)
EXTENDS Integers, Sequences, FiniteSets, TLC

VARIABLES
    totals,     \* MomentsPen: area, momentX, momentY, momentXX, momentYY, momentXY
    stats,      \* StatisticsPen: the nine derived attributes
    cur,        \* BasePen current point (<<>> when no subpath is open)
    start,      \* MomentsPen.__startPoint (<<>> before the first moveTo)
    raised,     \* TRUE when the last operation ended in an exception
    op,         \* the last operation performed
    seen,       \* the nine attributes as the latest read returned them
    ncmd,       \* number of path commands fed to the pen so far
    nclose,     \* number of closePath among them
    sub,        \* history: totals contributed by the latest subpath alone
    closed,     \* history: totals of the subpaths closed before the latest one
    atClose,    \* history: the nine attributes as the latest closePath stored them
    closing,    \* history: what the implicit line of the latest closePath added
    script      \* history: the commands so far are the first `script` commands
                \* of UnitSquare (-1: they are not a prefix of it)

vars == <<totals, stats, cur, start, raised, op, seen, ncmd, nclose,
          sub, closed, atClose, closing, script>>

hist == <<ncmd, nclose, sub, closed, atClose, closing, script>>

----------------------------------------------------------------------------
(* Bounds of the model *)

\* Longest command stream fed to one pen.
MaxCmds == 8
\* SpecUpdate: |area| of the totals handed to update.
MaxArea == 1
\* SpecUpdate: |momentX|, |momentY| of the totals handed to update.
MaxFirst == 1
\* SpecUpdate: |momentXX|, |momentYY|, |momentXY| of the totals handed to update.
MaxSecond == 1

----------------------------------------------------------------------------
(* Numbers *)

RECURSIVE GCD(_, _)
GCD(a, b) == IF b = 0 THEN a ELSE GCD(b, a % b)

AbsInt(i) == IF i < 0 THEN -i ELSE i

NaN == <<0, 0, 0>>
Exc == <<1, 0, 0>>

IsNaN(x) == x = NaN
IsExc(x) == x = Exc
IsNum(x) == x[2] > 0

\* (n / d) * sqrt(r) in normal form, for d # 0 and r >= 1 squarefree.
Norm(n, d, r) ==
    IF n = 0 THEN <<0, 1, 1>>
    ELSE LET g == GCD(AbsInt(n), AbsInt(d))
             s == IF d < 0 THEN -1 ELSE 1
         IN  <<s * (n \div g), s * (d \div g), r>>

Q(n) == <<n, 1, 1>>
Frac(n, d) == Norm(n, d, 1)

IsZero(x) == IsNum(x) /\ x[1] = 0
Sign(x) == IF x[1] > 0 THEN 1 ELSE IF x[1] < 0 THEN -1 ELSE 0

\* What an exception or a NaN among the operands makes of a result.
Lift2(x, y, v) ==
    IF IsExc(x) \/ IsExc(y) THEN Exc
    ELSE IF IsNaN(x) \/ IsNaN(y) THEN NaN
    ELSE v

\* x - y, for rationals, over the least common denominator
Sub(x, y) ==
    Lift2(x, y,
          LET g == GCD(x[2], y[2])
          IN  Frac(x[1] * (y[2] \div g) - y[1] * (x[2] \div g),
                   (x[2] \div g) * y[2]))

\* x + y, for rationals, over the least common denominator
Add(x, y) ==
    Lift2(x, y,
          LET g == GCD(x[2], y[2])
          IN  Frac(x[1] * (y[2] \div g) + y[1] * (x[2] \div g),
                   (x[2] \div g) * y[2]))

\* x * y: sqrt(r1) * sqrt(r2) = g * sqrt((r1/g) * (r2/g)), g = gcd(r1, r2)
Mul(x, y) ==
    Lift2(x, y,
          LET g == GCD(x[3], y[3])
              a == GCD(AbsInt(x[1]), y[2])
              b == GCD(AbsInt(y[1]), x[2])
              c == GCD(g, (x[2] \div b) * (y[2] \div a))
          IN  Norm((x[1] \div a) * (y[1] \div b) * (g \div c),
                   ((x[2] \div b) * (y[2] \div a)) \div c,
                   (x[3] \div g) * (y[3] \div g)))

\* 1 / y for y # 0: 1 / ((n/d) sqrt(r)) = (d / (n r)) sqrt(r)
Inv(y) == Norm(y[2], y[1] * y[3], y[3])

\* x / y: Python raises ZeroDivisionError on a zero divisor
Div(x, y) ==
    IF IsExc(x) \/ IsExc(y) THEN Exc
    ELSE IF IsZero(y) THEN Exc
    ELSE Lift2(x, y, Mul(x, Inv(y)))

\* x ** 2
Pow2(x) == Mul(x, x)

\* abs(x)
Abs(x) == IF IsNum(x) THEN <<AbsInt(x[1]), x[2], x[3]>> ELSE x

\* -x
Neg(x) == IF IsNum(x) THEN <<-x[1], x[2], x[3]>> ELSE x

\* The largest k with k * k dividing m, found by trial division from p.
RECURSIVE SquarePart(_, _)
SquarePart(m, p) ==
    IF p * p > m THEN 1
    ELSE IF m % (p * p) = 0 THEN p * SquarePart(m \div (p * p), p)
    ELSE SquarePart(m, p + 1)

\* x ** 0.5 for a rational x: sqrt(n/d) = sqrt(n d) / d = (k / d) sqrt(r) with
\* n d = k * k * r.  A negative base gives Python a complex number, which
\* math.copysign then rejects with TypeError.
PowHalf(x) ==
    IF ~IsNum(x) THEN x
    ELSE IF x[1] < 0 THEN Exc
    ELSE IF x[1] = 0 THEN Q(0)
    ELSE LET m == x[1] * x[2]
             k == SquarePart(m, 2)
         IN  Norm(k, x[2], m \div (k * k))

\* math.copysign(x, y): the magnitude of x with the sign of y (y = 0 counts as
\* positive zero, which compares equal to 0 either way)
Copysign(x, y) ==
    IF IsExc(x) \/ IsExc(y) THEN Exc
    ELSE IF IsNaN(x) THEN NaN
    ELSE IF Sign(y) < 0 THEN Neg(Abs(x)) ELSE Abs(x)

\* The tolerance 1e-3 of the snapping, as 1 / ThresholdDen
ThresholdDen == 1000

\* a * a * r > d * d for 0 < a <= d, r > 1, computed without the squares of
\* a and d in full.  With d = q a + m (0 <= m < a), (d/a)^2 lies in
\* [q^2, (q+1)^2); between the two, a^2 (r - q^2) > m (2 q a + m) is
\* a (r - q^2) - 2 q m > m^2 / a, and m^2 / a < m.
SqGt(a, r, d) ==
    LET q == d \div a
        m == d % a
        x == (r - q * q) * a - 2 * q * m
    IN  IF r < q * q THEN FALSE
        ELSE IF r >= (q + 1) * (q + 1) THEN TRUE
        ELSE IF x <= 0 THEN FALSE
        ELSE IF x >= m THEN TRUE
        ELSE x * a > m * m

\* x > 1e-3 for x >= 0: FALSE for NaN.  (a sqrt(r)) / d > 1 with a = 1000 n.
GtThreshold(x) ==
    IF ~IsNum(x) THEN FALSE
    ELSE LET g == GCD(ThresholdDen * x[1], x[2])
             a == (ThresholdDen * x[1]) \div g
             d == x[2] \div g
         IN  IF a > d THEN TRUE
             ELSE IF x[3] = 1 \/ a = 0 THEN FALSE
             ELSE SqGt(a, x[3], d)

----------------------------------------------------------------------------
(* StatisticsPen *)

Fields == <<"meanX", "meanY", "varianceX", "varianceY", "stddevX", "stddevY",
            "covariance", "correlation", "slant">>

TotalNames == {"area", "momentX", "momentY", "momentXX", "momentYY", "momentXY"}

\* MomentsPen.__init__: the six totals start at 0.
ZeroTotals == [f \in TotalNames |-> Q(0)]

\* StatisticsPen.__zero
zero ==
    [meanX |-> Q(0), meanY |-> Q(0), varianceX |-> Q(0), varianceY |-> Q(0),
     stddevX |-> Q(0), stddevY |-> Q(0), covariance |-> Q(0),
     correlation |-> Q(0), slant |-> Q(0)]

\* SignedSqrt without the copysign: the square root of the magnitude alone
UnsignedSqrt(v) == PowHalf(Abs(v))

\* math.copysign(abs(v) ** 0.5, v)
SignedSqrt(v) == Copysign(PowHalf(Abs(v)), v)

\* Snap with `>=` in place of `>`
SnapAtOrAbove(x) ==
    IF IsExc(x) THEN Exc
    ELSE IF GtThreshold(Abs(x)) \/ Abs(x) = <<1, ThresholdDen, 1>> THEN x
    ELSE Q(0)

\* x if abs(x) > 1e-3 else 0
Snap(x) == IF IsExc(x) THEN Exc ELSE IF GtThreshold(Abs(x)) THEN x ELSE Q(0)

\* correlation, before the snapping: NaN when stddevX * stddevY == 0
Correlation(covariance, stddevX, stddevY) ==
    IF IsZero(Mul(stddevX, stddevY)) THEN NaN
    ELSE Div(covariance, Mul(stddevX, stddevY))

\* Slant without the test of varianceY
SlantUnguarded(covariance, varianceY) == Div(covariance, varianceY)

\* slant, before the snapping: NaN when varianceY == 0
Slant(covariance, varianceY) ==
    IF ~IsZero(varianceY) THEN Div(covariance, varianceY) ELSE NaN

\* Mean dividing by the magnitude of the area
MeanAbsArea(moment, area) == Div(moment, Abs(area))

\* momentX / area, momentY / area
Mean(moment, area) == Div(moment, area)

\* Variance clamped at 0
VarianceClamped(moment2, area, mean) ==
    LET v == Sub(Div(moment2, area), Pow2(mean))
    IN  IF IsNum(v) /\ Sign(v) < 0 THEN Q(0) ELSE v

\* momentXX / area - meanX**2, momentYY / area - meanY**2
Variance(moment2, area, mean) == Sub(Div(moment2, area), Pow2(mean))

\* Covariance without the product of the means
CovarianceRaw(momentXY, area, meanX, meanY) == Div(momentXY, area)

\* momentXY / area - meanX * meanY
Covariance(momentXY, area, meanX, meanY) ==
    Sub(Div(momentXY, area), Mul(meanX, meanY))

\* The values the statements of __update compute from the totals t, in the
\* order of their assignments; a statement that raises has the value Exc.
Computed(t) ==
    LET area == t.area
        meanX == Mean(t.momentX, area)
        meanY == Mean(t.momentY, area)
        varianceX == Variance(t.momentXX, area, meanX)
        varianceY == Variance(t.momentYY, area, meanY)
        stddevX == SignedSqrt(varianceX)
        stddevY == SignedSqrt(varianceY)
        covariance == Covariance(t.momentXY, area, meanX, meanY)
    IN  [meanX |-> meanX, meanY |-> meanY,
         varianceX |-> varianceX, varianceY |-> varianceY,
         stddevX |-> stddevX, stddevY |-> stddevY,
         covariance |-> covariance,
         correlation |-> Snap(Correlation(covariance, stddevX, stddevY)),
         slant |-> Snap(Slant(covariance, varianceY))]

\* The first statement of __update that raises (10: none does).
FirstRaise(new) ==
    IF \E i \in 1..9 : IsExc(new[Fields[i]])
    THEN CHOOSE i \in 1..9 :
            /\ IsExc(new[Fields[i]])
            /\ \A j \in 1..(i - 1) : ~IsExc(new[Fields[j]])
    ELSE 10

\* `if not area`
NoArea(t) == IsZero(t.area)

\* The area == 0 branch of __update left without calling __zero
updateStale(old) == [stats |-> old, raised |-> FALSE]

\* __update when area == 0: self.__zero(), return
updateNoArea(old) == [stats |-> zero, raised |-> FALSE]

\* __update when area # 0.  An exception leaves the attributes assigned
\* before it new and the others as they were.
updateArea(t, old) ==
    LET new == Computed(t)
        k == FirstRaise(new)
    IN  [stats |-> [f \in DOMAIN zero |->
                       LET i == CHOOSE j \in 1..9 : Fields[j] = f
                       IN  IF i < k THEN new[f] ELSE old[f]],
         raised |-> k < 10]

\* StatisticsPen.__update on the totals t, the attributes being old before it:
\* the attributes after it, and whether it raised.
update(t, old) == IF NoArea(t) THEN updateNoArea(old) ELSE updateArea(t, old)

----------------------------------------------------------------------------
(* MomentsPen: the six totals, accumulated segment by segment.  Each total  *)
(* is the integral of a monomial (1, x, y, x^2, y^2, xy) over the interior, *)
(* taken along the boundary by Green's theorem with counter-clockwise       *)
(* contours positive: the integral of f over the interior is minus the      *)
(* integral of F dx along the boundary, F an antiderivative of f in y.  A   *)
(* segment is a polynomial curve (x(t), y(t)), t in [0, 1]; a polynomial is *)
(* the sequence of its coefficients, that of t^(k-1) at index k.            *)

\* Corners of the unit square: the points commands are drawn from.
Points == {<<0, 0>>, <<1, 0>>, <<1, 1>>, <<0, 1>>}

\* Off-curve control points of a quadTo or curveTo from p0 to p1: the curves
\* drawn have their control points at the ends of their chord, which keeps
\* every total a fraction with a small denominator.
ControlPoints(p0, p1) == {p0, p1}

\* The sequence of the n values e[1], ..., e[n], written out.
AsSeq(e, n) == SubSeq(e, 1, n)

PolyMul(a, b) ==
    LET n == Len(a) + Len(b) - 1
        Coef(k) ==
            LET lo == IF k - Len(b) + 1 > 1 THEN k - Len(b) + 1 ELSE 1
                hi == IF k < Len(a) THEN k ELSE Len(a)
                term[i \in (lo - 1)..hi] ==
                    IF i = lo - 1 THEN 0 ELSE term[i - 1] + a[i] * b[k - i + 1]
            IN  term[hi]
    IN  AsSeq([k \in 1..n |-> Coef(k)], n)

PolyDeriv(a) == AsSeq([k \in 1..(Len(a) - 1) |-> k * a[k + 1]], Len(a) - 1)

\* The integral of the polynomial a over [0, 1]: the sum of a[k] / k.
Integral(a) ==
    LET part[k \in 0..Len(a)] ==
            IF k = 0 THEN Q(0) ELSE Add(part[k - 1], Frac(a[k], k))
    IN  part[Len(a)]

\* One coordinate of a line, a quadratic and a cubic Bezier segment, as a
\* polynomial in t.
Line(p0, p1) == <<p0, p1 - p0>>
Quadratic(p0, c, p1) == <<p0, 2 * (c - p0), p0 - 2 * c + p1>>
Cubic(p0, c1, c2, p1) ==
    <<p0, 3 * (c1 - p0), 3 * (p0 - 2 * c1 + c2), p1 - 3 * c2 + 3 * c1 - p0>>

\* What the segment (x(t), y(t)) adds to each total.
Contribution(x, y) ==
    LET dx == PolyDeriv(x)
        ydx == PolyMul(y, dx)
        yydx == PolyMul(y, ydx)
    IN  [area |-> Neg(Integral(ydx)),
         momentX |-> Neg(Integral(PolyMul(x, ydx))),
         momentY |-> Neg(Div(Integral(yydx), Q(2))),
         momentXX |-> Neg(Integral(PolyMul(PolyMul(x, x), ydx))),
         momentYY |-> Neg(Div(Integral(PolyMul(y, yydx)), Q(3))),
         momentXY |-> Neg(Div(Integral(PolyMul(x, yydx)), Q(2)))]

AddTotals(s, t) == [f \in TotalNames |-> Add(s[f], t[f])]

\* The contributions of the segments the commands can draw, computed once.
LineTable ==
    [p0 \in Points, p1 \in Points |->
        Contribution(Line(p0[1], p1[1]), Line(p0[2], p1[2]))]
QuadTable ==
    [p0 \in Points, c \in Points, p1 \in Points |->
        Contribution(Quadratic(p0[1], c[1], p1[1]), Quadratic(p0[2], c[2], p1[2]))]
CubicTable ==
    [p0 \in Points, c1 \in Points, c2 \in Points, p1 \in Points |->
        Contribution(Cubic(p0[1], c1[1], c2[1], p1[1]),
                     Cubic(p0[2], c1[2], c2[2], p1[2]))]

LineContribution(p0, p1) == LineTable[p0, p1]
QuadContribution(p0, c, p1) == QuadTable[p0, c, p1]
CubicContribution(p0, c1, c2, p1) == CubicTable[p0, c1, c2, p1]

----------------------------------------------------------------------------
(* The pen.  Commands arrive as the pen protocol sends them: a subpath is   *)
(* opened by moveTo, drawn by lineTo, quadTo and curveTo, and ended by      *)
(* closePath before the next one opens.                                     *)

\* moveTo(0,0), lineTo(1,0), lineTo(1,1), lineTo(0,1), closePath
UnitSquare ==
    <<<<"moveTo", <<0, 0>>>>, <<"lineTo", <<1, 0>>>>, <<"lineTo", <<1, 1>>>>,
      <<"lineTo", <<0, 1>>>>, <<"closePath">>>>

Follows(cmd) ==
    IF script >= 0 /\ script < Len(UnitSquare) /\ UnitSquare[script + 1] = cmd
    THEN script + 1
    ELSE -1

\* StatisticsPen.__init__: the totals of MomentsPen.__init__, then __zero
Init ==
    /\ totals = ZeroTotals
    /\ stats = zero
    /\ cur = <<>>
    /\ start = <<>>
    /\ raised = FALSE
    /\ op = "init"
    /\ seen = zero
    /\ ncmd = 0
    /\ nclose = 0
    /\ sub = ZeroTotals
    /\ closed = ZeroTotals
    /\ atClose = zero
    /\ closing = ZeroTotals
    /\ script = 0

moveTo(p) ==
    /\ ncmd < MaxCmds
    /\ cur = <<>>
    /\ cur' = p
    /\ start' = p
    /\ op' = "moveTo"
    /\ raised' = FALSE
    /\ ncmd' = ncmd + 1
    /\ closed' = AddTotals(closed, sub)
    /\ sub' = ZeroTotals
    /\ script' = Follows(<<"moveTo", p>>)
    /\ UNCHANGED <<totals, stats, seen, nclose, atClose, closing>>

\* A drawing command adding `more` to the totals and ending at p.
Draw(name, more, p) ==
    /\ totals' = AddTotals(totals, more)
    /\ sub' = AddTotals(sub, more)
    /\ cur' = p
    /\ op' = name
    /\ raised' = FALSE
    /\ ncmd' = ncmd + 1
    /\ UNCHANGED <<stats, start, seen, nclose, closed, atClose, closing>>

lineTo(p) ==
    /\ ncmd < MaxCmds
    /\ cur # <<>>
    /\ Draw("lineTo", LineContribution(cur, p), p)
    /\ script' = Follows(<<"lineTo", p>>)

quadTo(c, p) ==
    /\ ncmd < MaxCmds
    /\ cur # <<>>
    /\ c \in ControlPoints(cur, p)
    /\ Draw("quadTo", QuadContribution(cur, c, p), p)
    /\ script' = -1

curveTo(c1, c2, p) ==
    /\ ncmd < MaxCmds
    /\ cur # <<>>
    /\ c1 \in ControlPoints(cur, p)
    /\ c2 \in ControlPoints(cur, p)
    /\ Draw("curveTo", CubicContribution(cur, c1, c2, p), p)
    /\ script' = -1

\* MomentsPen._closePath: the implicit line back to the start point, when the
\* current point is not the start point
ImplicitLine == IF cur # start THEN LineContribution(cur, start) ELSE ZeroTotals

\* closePath calling __update before MomentsPen._closePath
closePathUpdateFirst ==
    /\ ncmd < MaxCmds
    /\ cur # <<>>
    /\ LET u == update(totals, stats)
       IN  /\ stats' = u.stats
           /\ raised' = u.raised
           /\ atClose' = u.stats
    /\ totals' = AddTotals(totals, ImplicitLine)
    /\ sub' = AddTotals(sub, ImplicitLine)
    /\ closing' = ImplicitLine
    /\ cur' = <<>>
    /\ op' = "closePath"
    /\ ncmd' = ncmd + 1
    /\ nclose' = nclose + 1
    /\ script' = Follows(<<"closePath">>)
    /\ UNCHANGED <<start, seen, closed>>

\* closePath: StatisticsPen._closePath, that is MomentsPen._closePath and then
\* __update on the totals it leaves; the pen then has no current point.
closePath ==
    /\ ncmd < MaxCmds
    /\ cur # <<>>
    /\ totals' = AddTotals(totals, ImplicitLine)
    /\ sub' = AddTotals(sub, ImplicitLine)
    /\ closing' = ImplicitLine
    /\ LET u == update(totals', stats)
       IN  /\ stats' = u.stats
           /\ raised' = u.raised
           /\ atClose' = u.stats
    /\ cur' = <<>>
    /\ op' = "closePath"
    /\ ncmd' = ncmd + 1
    /\ nclose' = nclose + 1
    /\ script' = Follows(<<"closePath">>)
    /\ UNCHANGED <<start, seen, closed>>

\* A read that recomputes the attributes from the totals of the moment
readRecomputes ==
    /\ stats' = update(totals, stats).stats
    /\ seen' = stats'
    /\ op' = "read"
    /\ UNCHANGED <<totals, cur, start, raised, hist>>

\* Reading the nine attributes (getattr(pen, item))
read ==
    /\ seen' = stats
    /\ op' = "read"
    /\ UNCHANGED <<totals, stats, cur, start, raised, hist>>

Next ==
    \/ \E p \in Points : moveTo(p)
    \/ \E p \in Points : lineTo(p)
    \/ \E c \in Points, p \in Points : quadTo(c, p)
    \/ \E c1 \in Points, c2 \in Points, p \in Points : curveTo(c1, c2, p)
    \/ closePath
    \/ read

Spec == Init /\ [][Next]_vars

----------------------------------------------------------------------------
(* __update as a function of the six totals *)

\* Second moments near the 1e-3 tolerance: with area 1, first moments 0 and
\* momentXY 1 they give |slant| and |correlation| just above, at and just
\* below 1e-3.
NearThreshold == {ThresholdDen - 1, ThresholdDen, ThresholdDen + 1}

TotalsIn ==
    {[area |-> Q(a), momentX |-> Q(mx), momentY |-> Q(my),
      momentXX |-> Q(mxx), momentYY |-> Q(myy), momentXY |-> Q(mxy)] :
        a \in -MaxArea..MaxArea,
        mx \in -MaxFirst..MaxFirst,
        my \in -MaxFirst..MaxFirst,
        mxx \in (-MaxSecond..MaxSecond) \cup NearThreshold,
        myy \in (-MaxSecond..MaxSecond) \cup NearThreshold,
        mxy \in -MaxSecond..MaxSecond}

\* A pen whose totals are any of TotalsIn, before __update runs on them.
InitUpdate ==
    /\ totals \in TotalsIn
    /\ stats = zero
    /\ cur = <<>>
    /\ start = <<>>
    /\ raised = FALSE
    /\ op = "init"
    /\ seen = zero
    /\ ncmd = 0
    /\ nclose = 0
    /\ sub = ZeroTotals
    /\ closed = ZeroTotals
    /\ atClose = zero
    /\ closing = ZeroTotals
    /\ script = 0

\* self.__update()
runUpdate ==
    /\ op = "init"
    /\ LET u == update(totals, stats)
       IN  /\ stats' = u.stats
           /\ raised' = u.raised
           /\ atClose' = u.stats
    /\ op' = "update"
    /\ UNCHANGED <<totals, cur, start, seen, ncmd, nclose, sub, closed,
                   closing, script>>

NextUpdate == runUpdate

SpecUpdate == InitUpdate /\ [][NextUpdate]_vars

----------------------------------------------------------------------------
(* Claims about __update as a function of the totals (SpecUpdate) *)

Updated == op = "update" /\ ~IsZero(totals.area)

\* The values of correlation and slant before the snapping, recomputed from
\* the stored covariance, standard deviations and variance.
RawCorrelation == Correlation(stats.covariance, stats.stddevX, stats.stddevY)
RawSlant == Slant(stats.covariance, stats.varianceY)

Threshold == <<1, ThresholdDen, 1>>
AbsBelow(x) == IsNum(x) /\ ~GtThreshold(Abs(x)) /\ Abs(x) # Threshold
AbsAtOrAbove(x) == IsNum(x) /\ (GtThreshold(Abs(x)) \/ Abs(x) = Threshold)
AbsAbove(x) == IsNum(x) /\ GtThreshold(Abs(x))
AbsAtOrBelow(x) == IsNum(x) /\ ~GtThreshold(Abs(x))

\* C1: after __update on totals with nonzero area, slant is NaN whenever
\* varianceY is exactly 0 and correlation is NaN whenever stddevX * stddevY is
\* exactly 0: the NaN is not replaced by 0.
C1_NaNSurfaced ==
    Updated =>
        /\ IsZero(stats.varianceY) => IsNaN(stats.slant)
        /\ IsZero(Mul(stats.stddevX, stats.stddevY)) => IsNaN(stats.correlation)

\* C4 as claimed: a correlation or slant with magnitude below 1e-3 is stored
\* as 0, one with magnitude at or above 1e-3 (1e-3 itself included) is stored
\* unchanged.
C4_SnapBelowKeepAtOrAbove ==
    Updated =>
        /\ AbsBelow(RawCorrelation) => stats.correlation = Q(0)
        /\ AbsAtOrAbove(RawCorrelation) => stats.correlation = RawCorrelation
        /\ AbsBelow(RawSlant) => stats.slant = Q(0)
        /\ AbsAtOrAbove(RawSlant) => stats.slant = RawSlant

\* C4 amended: a correlation or slant (a number, not NaN) with magnitude at or
\* below 1e-3 (1e-3 itself included) is stored as 0, one with magnitude above
\* 1e-3 is stored unchanged.
C4_SnapAtOrBelowKeepAbove ==
    Updated =>
        /\ AbsAtOrBelow(RawCorrelation) => stats.correlation = Q(0)
        /\ AbsAbove(RawCorrelation) => stats.correlation = RawCorrelation
        /\ AbsAtOrBelow(RawSlant) => stats.slant = Q(0)
        /\ AbsAbove(RawSlant) => stats.slant = RawSlant

\* C4 witness: slant is exactly 1e-3 before the snapping and stored as 0,
\* while correlation is above 1e-3 and stored unchanged.
C4_AtThreshold ==
    /\ Updated
    /\ RawSlant = Threshold
    /\ stats.slant = Q(0)
    /\ AbsAbove(RawCorrelation)
    /\ stats.correlation = RawCorrelation

\* C5: after __update on totals with nonzero area, meanX * area = momentX,
\* meanY * area = momentY, (varianceX + meanX^2) * area = momentXX,
\* (varianceY + meanY^2) * area = momentYY and
\* (covariance + meanX * meanY) * area = momentXY; negative variances included.
C5_MomentsOverArea ==
    Updated =>
        /\ Mul(stats.meanX, totals.area) = totals.momentX
        /\ Mul(stats.meanY, totals.area) = totals.momentY
        /\ Mul(Add(stats.varianceX, Pow2(stats.meanX)), totals.area) = totals.momentXX
        /\ Mul(Add(stats.varianceY, Pow2(stats.meanY)), totals.area) = totals.momentYY
        /\ Mul(Add(stats.covariance, Mul(stats.meanX, stats.meanY)), totals.area)
               = totals.momentXY

\* C5 witness: a negative varianceX stored next to a positive varianceY.
C5_NegativeVariance ==
    /\ Updated
    /\ Sign(stats.varianceX) < 0
    /\ Sign(stats.varianceY) > 0
    /\ ~IsZero(stats.meanX)

\* C6: after __update on totals with nonzero area, stddev squared is the
\* magnitude of the variance, stddev has the sign of the variance, and stddev
\* is 0 exactly when the variance is 0, for X and for Y.
C6_SignedSquareRoot ==
    Updated =>
        /\ Pow2(stats.stddevX) = Abs(stats.varianceX)
        /\ Pow2(stats.stddevY) = Abs(stats.varianceY)
        /\ Sign(stats.stddevX) = Sign(stats.varianceX)
        /\ Sign(stats.stddevY) = Sign(stats.varianceY)
        /\ IsZero(stats.stddevX) <=> IsZero(stats.varianceX)
        /\ IsZero(stats.stddevY) <=> IsZero(stats.varianceY)

\* C6 witness: a negative varianceX, whose root is irrational and negative,
\* next to a zero varianceY.
C6_NegativeRoot ==
    /\ Updated
    /\ Sign(stats.varianceX) < 0
    /\ stats.stddevX[3] > 1
    /\ Sign(stats.stddevX) < 0
    /\ IsZero(stats.varianceY)

NegTotals(t) == [f \in TotalNames |-> Neg(t[f])]

\* C10: the nine attributes __update derives from the totals equal those it
\* derives from the six totals negated together.
C10_WindingReversal ==
    op = "update" => stats = update(NegTotals(totals), zero).stats

\* C10 witness: nonzero means, a negative (signed) stddevX and a slant that
\* survives the snapping.
C10_SignSensitive ==
    /\ Updated
    /\ ~IsZero(stats.meanX)
    /\ ~IsZero(stats.meanY)
    /\ Sign(stats.stddevX) < 0
    /\ IsNum(stats.slant) /\ ~IsZero(stats.slant)

----------------------------------------------------------------------------
(* Claims about the pen (Spec) *)

AllZero(st) == \A i \in 1..9 : st[Fields[i]] = <<0, 1, 1>>

\* C2: after a closePath that leaves the cumulative area exactly 0, the nine
\* attributes are all exactly 0.
C2_ZeroAreaZeroes ==
    (op = "closePath" /\ IsZero(totals.area)) => AllZero(stats)

\* C2 witness: a closePath leaving area 0 after an earlier closePath had left
\* a nonzero area (the later subpaths cancel the earlier ones).
C2_Cancelled ==
    /\ op = "closePath"
    /\ IsZero(totals.area)
    /\ nclose >= 2
    /\ ~IsZero(closed.area)
    /\ AllZero(stats)

\* C3: after every closePath the nine attributes are those derived from the
\* totals of everything drawn so far: the subpaths closed earlier plus the
\* subpath just closed, its closing line included.
C3_Cumulative ==
    op = "closePath" => stats = update(AddTotals(closed, sub), zero).stats

\* C3 witness: a second closePath whose implicit closing line added something,
\* after which the attributes differ from those of the last subpath alone.
C3_SecondClose ==
    /\ op = "closePath"
    /\ nclose = 2
    /\ closing # ZeroTotals
    /\ ~IsZero(closed.area)
    /\ ~IsZero(totals.area)
    /\ stats # update(sub, zero).stats

\* C7: in every state the nine attributes are those the latest closePath
\* stored, all exactly 0 while no closePath has happened, and a read returns
\* them unchanged.
C7_OnlyCloseChanges ==
    /\ stats = atClose
    /\ nclose = 0 => AllZero(stats)
    /\ op = "read" => seen = atClose

\* C7 witness: a read in the middle of a later subpath, when
\* the totals have moved on from those the nonzero attributes were derived from.
C7_ReadMidSubpath ==
    /\ op = "read"
    /\ nclose >= 1
    /\ cur # <<>>
    /\ ~AllZero(seen)
    /\ ~IsZero(totals.area)
    /\ stats # update(totals, zero).stats

\* C9: after moveTo(0,0), lineTo(1,0), lineTo(1,1), lineTo(0,1), closePath the
\* pen reads area 1, meanX = meanY = 1/2, varianceX = varianceY = 1/12,
\* covariance 0, correlation 0 and slant 0.
C9_UnitSquare ==
    script = Len(UnitSquare) =>
        /\ totals.area = <<1, 1, 1>>
        /\ stats.meanX = <<1, 2, 1>>
        /\ stats.meanY = <<1, 2, 1>>
        /\ stats.varianceX = <<1, 12, 1>>
        /\ stats.varianceY = <<1, 12, 1>>
        /\ stats.covariance = <<0, 1, 1>>
        /\ stats.correlation = <<0, 1, 1>>
        /\ stats.slant = <<0, 1, 1>>

\* C9 witness: the unit square has been drawn and closed.
C9_SquareClosed ==
    /\ script = Len(UnitSquare)
    /\ op = "closePath"
    /\ nclose = 1
    /\ ncmd = 5

====
